---- MODULE Spec2Model ----
(***************************************************************************)
(* A model of moz-idb-edit (src/mozidbedit/__init__.py): the identifier    *)
(* resolvers, the origin directory-name codec of main, the store           *)
(* connection's scope in main and discover_idbs, the projection            *)
(* IDBObjectWrapper and the printer _safe_repr with its sort helpers.      *)
(*                                                                         *)
(* Python strings are sequences of one-character strings wherever the code *)
(* looks inside them (replace, split, startswith, int(), f-strings).       *)
(* Each component has its own specification; the variables of the other    *)
(* components rest at their idle values.                                   *)
(***************************************************************************)
EXTENDS Integers, Sequences, FiniteSets, TLC

VARIABLES
    \* origin key codec (main, --site and --list-sites)
    k_pc, k_in, k_dir, k_out,
    \* read_user_prefs / find_uuid_by_ext_id
    f_pc, f_file, f_pos, f_out, f_log, f_res,
    \* read_user_contexts / find_context_id_by_name
    x_pc, x_data, x_pos, x_yield, x_end, x_res,
    \* store connections of main and discover_idbs
    m_pc, m_files, m_idx, m_open, m_opened, m_dbs,
    \* sorted(object.items(), key=_safe_tuple)
    s_pc, s_items, s_sorted,
    \* _safe_repr
    p_pc, heap, store, store0, root, maxlevels, sort_dicts,
    stack, context, ret, results, hits, cuts, steps

codecVars == <<k_pc, k_in, k_dir, k_out>>
prefsVars == <<f_pc, f_file, f_pos, f_out, f_log, f_res>>
ctxVars == <<x_pc, x_data, x_pos, x_yield, x_end, x_res>>
connVars == <<m_pc, m_files, m_idx, m_open, m_opened, m_dbs>>
sortVars == <<s_pc, s_items, s_sorted>>
printerVars == <<p_pc, heap, store, store0, root, maxlevels, sort_dicts,
                 stack, context, ret, results, hits, cuts, steps>>
vars == <<codecVars, prefsVars, ctxVars, connVars, sortVars, printerVars>>

\* The resting values of each component's variables.
CodecIdle == k_pc = "idle" /\ k_in = <<>> /\ k_dir = <<>> /\ k_out = <<>>
PrefsIdle ==
    /\ f_pc = "idle" /\ f_file = <<>> /\ f_pos = 0
    /\ f_out = <<>> /\ f_log = <<>> /\ f_res = <<>>
CtxIdle ==
    /\ x_pc = "idle" /\ x_data = <<>> /\ x_pos = 0
    /\ x_yield = <<>> /\ x_end = <<>> /\ x_res = <<>>
ConnIdle ==
    /\ m_pc = "idle" /\ m_files = <<>> /\ m_idx = 0
    /\ m_open = {} /\ m_opened = 0 /\ m_dbs = {}
SortIdle == s_pc = "idle" /\ s_items = <<>> /\ s_sorted = <<>>
PrinterIdle ==
    /\ p_pc = "idle" /\ heap = <<>> /\ store = <<>> /\ store0 = <<>> /\ root = 0
    /\ maxlevels = 0 /\ sort_dicts = FALSE /\ stack = <<>> /\ context = {}
    /\ ret = <<>> /\ results = <<>> /\ hits = 0 /\ cuts = 0 /\ steps = 0

notCodec == <<prefsVars, ctxVars, connVars, sortVars, printerVars>>
notPrefs == <<codecVars, ctxVars, connVars, sortVars, printerVars>>
notCtx == <<codecVars, prefsVars, connVars, sortVars, printerVars>>
notConn == <<codecVars, prefsVars, ctxVars, sortVars, printerVars>>
notSort == <<codecVars, prefsVars, ctxVars, connVars, printerVars>>
notPrinter == <<codecVars, prefsVars, ctxVars, connVars, sortVars>>

\* ------------------------------------------------------------------ bounds
\* Longest host of a site string.
MaxHostLen == 3
\* Largest container id of a site.
MaxCtxId == 11

\* ------------------------------------------------------- string helpers
\* The sequences over S of length at most n.
SeqsUpTo(S, n) == UNION {[1..k -> S] : k \in 0..n}

\* s[i..], s[..i-1]
Drop(s, n) == SubSeq(s, n + 1, Len(s))
Take(s, n) == SubSeq(s, 1, n)

\* str.startswith
StartsWith(s, pre) == Len(s) >= Len(pre) /\ Take(s, Len(pre)) = pre

\* str.find + 1: the first position where sub occurs in s, 0 when it does not.
Find(s, sub) ==
    LET at == {i \in 1..(Len(s) - Len(sub) + 1) : SubSeq(s, i, i + Len(sub) - 1) = sub}
    IN IF at = {} THEN 0 ELSE CHOOSE i \in at : \A j \in at : i <= j

\* sub in s
Contains(s, sub) == Find(s, sub) # 0

\* s.split(sep, 1): one or two parts.
Split1(s, sep) ==
    LET i == Find(s, sep)
    IN IF i = 0 THEN <<s>>
       ELSE <<Take(s, i - 1), Drop(s, i + Len(sep) - 1)>>

\* s.replace(a, b) for one-character a and b.
Replace(s, a, b) == [i \in 1..Len(s) |-> IF s[i] = a THEN b ELSE s[i]]

Digits == <<"0", "1", "2", "3", "4", "5", "6", "7", "8", "9">>
DigitChars == {Digits[i] : i \in 1..10}
DigitVal(c) == (CHOOSE i \in 1..10 : Digits[i] = c) - 1

\* str(n) of a non-negative int, as an f-string formats it.
RECURSIVE IntToStr(_)
IntToStr(n) ==
    IF n < 10 THEN <<Digits[n + 1]>>
    ELSE IntToStr(n \div 10) \o <<Digits[(n % 10) + 1]>>

RECURSIVE DigitsToInt(_)
DigitsToInt(s) ==
    IF s = <<>> THEN 0
    ELSE 10 * DigitsToInt(Take(s, Len(s) - 1)) + DigitVal(s[Len(s)])

\* int(s) on an unsigned decimal literal: [ok |-> TRUE, val] or ValueError.
ParseInt(s) ==
    IF s # <<>> /\ \A i \in 1..Len(s) : s[i] \in DigitChars
    THEN [ok |-> TRUE, val |-> DigitsToInt(s)]
    ELSE [ok |-> FALSE, val |-> 0]

\* ------------------------------------------------------ origin key codec
CtxSuffix == <<"^", "u", "s", "e", "r", "C", "o", "n", "t", "e", "x", "t", "I", "d", "=">>
TriplePlus == <<"+", "+", "+">>
SchemeSep == <<":", "/", "/">>
FileScheme == <<"f", "i", "l", "e">>
HttpScheme == <<"h", "t", "t", "p">>
MozExtension == <<"m", "o", "z", "-", "e", "x", "t", "e", "n", "s", "i", "o", "n">>

Schemes == {FileScheme, HttpScheme}
HostChars == {"a", ":", "/", "+"}
Hosts == SeqsUpTo(HostChars, MaxHostLen) \ {<<>>}
CtxIds == {0, 7, MaxCtxId}

\* The site string of an origin, as --list-sites prints it (origin = scheme + "://" + netloc).
SiteString(scheme, host) == scheme \o SchemeSep \o host

\* main, --site: the directory name of a site string and a container id.
EncodeSite(site, ctx_id) ==
    LET site_name == Replace(Replace(site, ":", "+"), "/", "+")
    IN IF ctx_id # 0 THEN site_name \o CtxSuffix \o IntToStr(ctx_id) ELSE site_name

\* main, --list-sites: whether the directory is listed at all.
ListedDir(name) == ~StartsWith(name, MozExtension) /\ Contains(name, TriplePlus)

\* main, --list-sites: the origin and container of a directory name. ctx is the
\* parsed container id, 0 when the name carries no suffix (the default
\* container); ctx_ok is FALSE when int() refused the suffix, which the code
\* then keeps as text.
DecodeDir(name) ==
    LET hasCtx == Contains(name, CtxSuffix)
        parts == IF hasCtx THEN Split1(name, CtxSuffix) ELSE <<name, <<>>>>
        encoded_origin == parts[1]
        ctx_name == parts[2]
        parsed == IF hasCtx THEN ParseInt(ctx_name) ELSE [ok |-> TRUE, val |-> 0]
        sp == Split1(encoded_origin, TriplePlus)
    IN IF Len(sp) # 2 THEN [kind |-> "ValueError"]
       ELSE LET scheme == sp[1]
                netloc == IF scheme = FileScheme THEN Replace(sp[2], "+", "/")
                          ELSE Replace(sp[2], "+", ":")
            IN [kind |-> "ok", scheme |-> scheme, host |-> netloc,
                ctx_ok |-> parsed.ok, ctx |-> parsed.val]

CodecInit ==
    /\ CodecIdle /\ PrefsIdle /\ CtxIdle /\ ConnIdle /\ SortIdle /\ PrinterIdle

\* main --site <scheme>://<host> --userctx <id>
Encode ==
    /\ k_pc = "idle"
    /\ \E scheme \in Schemes, host \in Hosts, ctx_id \in CtxIds :
        /\ k_in' = [scheme |-> scheme, host |-> host, ctx |-> ctx_id]
        /\ k_dir' = EncodeSite(SiteString(scheme, host), ctx_id)
    /\ k_pc' = "encoded"
    /\ UNCHANGED <<k_out, notCodec>>

\* main --list-sites over the directory just named
Decode ==
    /\ k_pc = "encoded"
    /\ ListedDir(k_dir)
    /\ k_out' = DecodeDir(k_dir)
    /\ k_pc' = "decoded"
    /\ UNCHANGED <<k_in, k_dir, notCodec>>

CodecNext == Encode \/ Decode

SpecCodec == CodecInit /\ [][CodecNext]_vars

\* C1: decoding the directory name of an encoded (scheme, host, containerId)
\* gives back the same scheme, host and container id.
C1_RoundTrip ==
    k_pc = "decoded" =>
        /\ k_out.kind = "ok"
        /\ k_out.scheme = k_in.scheme
        /\ k_out.host = k_in.host
        /\ k_out.ctx_ok /\ k_out.ctx = k_in.ctx

\* ----------------------------------------------- _safe_key, _safe_tuple
\* The characters the compared strings use, in code point order.
CodePointOrder ==
    <<" ", "'", "<", ">", "N", "T", "a", "b", "c", "e", "f", "i", "l", "m", "n",
      "o", "p", "r", "s", "t", "x", "y", "z">>
Ord(c) == CHOOSE i \in 1..Len(CodePointOrder) : CodePointOrder[i] = c

\* str < str: lexicographic by code point, a proper prefix first.
RECURSIVE StrLt(_, _)
StrLt(a, b) ==
    IF b = <<>> THEN FALSE
    ELSE IF a = <<>> THEN TRUE
    ELSE IF a[1] = b[1] THEN StrLt(Tail(a), Tail(b))
    ELSE Ord(a[1]) < Ord(b[1])

\* str(type(obj))
TypeStr(typ) ==
    <<"<", "c", "l", "a", "s", "s", " ", "'">> \o
    (CASE typ = "int" -> <<"i", "n", "t">>
       [] typ = "float" -> <<"f", "l", "o", "a", "t">>
       [] typ = "str" -> <<"s", "t", "r">>
       [] typ = "complex" -> <<"c", "o", "m", "p", "l", "e", "x">>
       [] typ = "frozenset" -> <<"f", "r", "o", "z", "e", "n", "s", "e", "t">>
       [] typ = "NoneType" -> <<"N", "o", "n", "e", "T", "y", "p", "e">>)
    \o <<"'", ">">>

NumericTypes == {"int", "float"}

\* Whether Python's a < b is defined on two key objects; it raises TypeError
\* where it is not.
Orderable(a, b) ==
    \/ a.typ \in NumericTypes /\ b.typ \in NumericTypes
    \/ a.typ = "str" /\ b.typ = "str"
    \/ a.typ = "frozenset" /\ b.typ = "frozenset"

\* Python's a < b where it is defined. A number carries twice its value in num
\* (2.5 is 5), a str its characters in chars, a frozenset its members.
NaturalLt(a, b) ==
    IF a.typ \in NumericTypes THEN a.num < b.num
    ELSE IF a.typ = "str" THEN StrLt(a.chars, b.chars)
    ELSE a.members \subseteq b.members /\ a.members # b.members

\* _safe_key.__lt__
SafeKeyLt(a, b) ==
    IF Orderable(a, b) THEN NaturalLt(a, b)
    ELSE \/ StrLt(TypeStr(a.typ), TypeStr(b.typ))
         \/ TypeStr(a.typ) = TypeStr(b.typ) /\ a.id < b.id

\* _safe_tuple(t1) < _safe_tuple(t2) for two items (key, value): a tuple
\* comparison looks for the first position whose members are not equal, and two
\* _safe_key wrappers (no __eq__) are equal only when they are the same wrapper,
\* so the position is always the key's and the values are never compared.
SafeTupleLt(t1, t2) == SafeKeyLt(t1[1], t2[1])

\* ---------------------------------------------------------------- sorted
\* list.sort on fewer than 64 items: the leading run (count_run), reversed when
\* strictly descending, then binary insertion (binarysort) of the rest.
RECURSIVE CountRunFrom(_, _, _)
CountRunFrom(a, n, descending) ==
    IF n >= Len(a) THEN n
    ELSE IF SafeTupleLt(a[n + 1], a[n]) = descending
         THEN CountRunFrom(a, n + 1, descending)
         ELSE n

Reverse(a) == [i \in 1..Len(a) |-> a[Len(a) + 1 - i]]

\* The place binarysort finds for pivot in the sorted prefix a[l+1..r].
RECURSIVE BinaryPlace(_, _, _, _)
BinaryPlace(a, pivot, l, r) ==
    IF l >= r THEN l
    ELSE LET p == l + ((r - l) \div 2)
         IN IF SafeTupleLt(pivot, a[p + 1])
            THEN BinaryPlace(a, pivot, l, p)
            ELSE BinaryPlace(a, pivot, p + 1, r)

RECURSIVE BinarySort(_, _)
BinarySort(a, start) ==
    IF start >= Len(a) THEN a
    ELSE LET pivot == a[start + 1]
             l == BinaryPlace(a, pivot, 0, start)
             moved == Take(a, l) \o <<pivot>> \o SubSeq(a, l + 1, start)
                      \o Drop(a, start + 1)
         IN BinarySort(moved, start + 1)

\* sorted(items, key=_safe_tuple)
Sorted(items) ==
    IF Len(items) < 2 THEN items
    ELSE LET descending == SafeTupleLt(items[2], items[1])
             n == CountRunFrom(items, 2, descending)
             run == IF descending THEN Reverse(Take(items, n)) \o Drop(items, n)
                    ELSE items
         IN BinarySort(run, n)

\* The keys a mapping is built from: each an object with its type, its value and
\* its identity (id()).
KeyObject(typ, num, chars, members, id) ==
    [typ |-> typ, num |-> num, chars |-> chars, members |-> members, id |-> id]

KeyObjects ==
    { KeyObject("int", 2, <<>>, {}, 11),          \* 1
      KeyObject("float", 5, <<>>, {}, 12),        \* 2.5
      KeyObject("str", 0, <<"a">>, {}, 13),       \* "a"
      KeyObject("str", 0, <<"b">>, {}, 14),       \* "b"
      KeyObject("frozenset", 0, <<>>, {1}, 15),   \* frozenset({1})
      KeyObject("complex", 1, <<>>, {}, 17),      \* 1j
      KeyObject("complex", 2, <<>>, {}, 16) }     \* 2j

\* Most keys of one mapping.
MaxKeys == 3

Injective(f) == \A i, j \in DOMAIN f : i # j => f[i] # f[j]

\* The items of a mapping in insertion order: distinct keys, each with a value.
ItemLists ==
    { [i \in DOMAIN ks |-> <<ks[i], 0>>] :
        ks \in {q \in SeqsUpTo(KeyObjects, MaxKeys) : Injective(q)} }

SortInit ==
    /\ CodecIdle /\ PrefsIdle /\ CtxIdle /\ ConnIdle /\ PrinterIdle
    /\ s_pc = "built"
    /\ s_items \in ItemLists
    /\ s_sorted = <<>>

\* _safe_repr with sort_dicts: items = sorted(object.items(), key=_safe_tuple)
SortItems ==
    /\ s_pc = "built"
    /\ s_sorted' = Sorted(s_items)
    /\ s_pc' = "sorted"
    /\ UNCHANGED <<s_items, notSort>>

\* The same mapping built again with its items inserted in another order.
Rebuild ==
    /\ s_pc = "sorted"
    /\ \E other \in ItemLists :
        /\ {other[i] : i \in DOMAIN other} = {s_items[i] : i \in DOMAIN s_items}
        /\ other # s_items
        /\ s_items' = other
    /\ s_pc' = "built"
    /\ s_sorted' = <<>>
    /\ UNCHANGED notSort

SortNext == SortItems \/ Rebuild

SpecSort == SortInit /\ [][SortNext]_vars

ItemSet == {s_items[i] : i \in DOMAIN s_items}

\* The comparison of the sort is a strict total order on the items being sorted.
StrictTotalOrder(S) ==
    /\ \A a \in S : ~SafeTupleLt(a, a)
    /\ \A a, b \in S : a # b => (SafeTupleLt(a, b) /\ ~SafeTupleLt(b, a))
                                 \/ (SafeTupleLt(b, a) /\ ~SafeTupleLt(a, b))
    /\ \A a, b, c \in S : SafeTupleLt(a, b) /\ SafeTupleLt(b, c) => SafeTupleLt(a, c)

\* C7: sorted rendering is deterministic: the comparison of _safe_key is a
\* strict total order on the items, and the sorted order of a mapping's items
\* is the same whatever order they come in.
C7_SortedDeterministic ==
    s_pc = "sorted" =>
        /\ StrictTotalOrder(ItemSet)
        /\ \A other \in ItemLists :
            {other[i] : i \in DOMAIN other} = ItemSet => Sorted(other) = s_sorted

\* ------------------------------------- read_user_prefs, find_uuid_by_ext_id
\* Most lines of prefs.js.
MaxLines == 3

UuidsPref == "extensions.webextensions.uuids"

\* A line of prefs.js, by the parts USER_PREF_RE looks at: what stands where
\* user_pref( should, the quote before and after the name, the name's bytes and
\* whether they are UTF-8, the text between the comma and the first ");", and
\* whether a ");" follows at all.
PrefLine(lead, q1, name, utf8, q2, value, term) ==
    [lead |-> lead, q1 |-> q1, name |-> name, utf8 |-> utf8, q2 |-> q2,
     value |-> value, term |-> term]

PrefLines ==
    { PrefLine("user_pref(", "\"", UuidsPref, TRUE, "\"", "\"{\\\"ext@a\\\":\\\"uuid-1\\\"}\"", TRUE),
      PrefLine("user_pref(", "\"", UuidsPref, TRUE, "\"", "\"{\\\"ext@b\\\":\\\"uuid-2\\\"}\"", TRUE),
      PrefLine("user_pref(", "\"", UuidsPref, TRUE, "\"", "\"{bad\"", TRUE),
      PrefLine("user_pref(", "\"", UuidsPref, TRUE, "\"", "\"[1]\"", TRUE),
      PrefLine("user_pref(", "'", UuidsPref, TRUE, "'", "5", TRUE),
      PrefLine("user_pref(", "\"", UuidsPref, TRUE, "\"", "{\"ext@a\":\"uuid-1\"}", TRUE),
      PrefLine("user_pref(", "\"", UuidsPref, TRUE, "\"", "{bad", TRUE),
      PrefLine("user_pref(", "\"", "a.b", TRUE, "\"", "true", TRUE),
      PrefLine("user_pref(", "\"", "a.b", TRUE, "'", "true", TRUE),
      PrefLine("user_pref(", "\"", "a.b", TRUE, "\"", "true", FALSE),
      PrefLine("user_pref(", "\"", "\\xff", FALSE, "\"", "true", TRUE),
      PrefLine("// ", "\"", "a.b", TRUE, "\"", "true", TRUE) }

PrefsFiles ==
    {[exists |-> FALSE, lines |-> <<>>]}
    \cup {[exists |-> TRUE, lines |-> l] : l \in SeqsUpTo(PrefLines, MaxLines)}

ExtIds == {"ext@a"}

\* A JSON value: its type, the text of a string, the pairs of an object.
JsonValue(t, text, pairs) == [t |-> t, text |-> text, pairs |-> pairs]
JsonError == [ok |-> FALSE, v |-> JsonValue("none", "", {})]
JsonOk(v) == [ok |-> TRUE, v |-> v]

\* json.loads on the texts that occur: the value, or ValueError (ok FALSE).
JsonLoads(text) ==
    CASE text = "true" -> JsonOk(JsonValue("bool", "", {}))
      [] text = "5" -> JsonOk(JsonValue("int", "", {}))
      [] text = "[1]" -> JsonOk(JsonValue("list", "", {}))
      [] text = "{\"ext@a\":\"uuid-1\"}" -> JsonOk(JsonValue("dict", "", {<<"ext@a", "uuid-1">>}))
      [] text = "{\"ext@b\":\"uuid-2\"}" -> JsonOk(JsonValue("dict", "", {<<"ext@b", "uuid-2">>}))
      [] text = "\"{\\\"ext@a\\\":\\\"uuid-1\\\"}\"" -> JsonOk(JsonValue("str", "{\"ext@a\":\"uuid-1\"}", {}))
      [] text = "\"{\\\"ext@b\\\":\\\"uuid-2\\\"}\"" -> JsonOk(JsonValue("str", "{\"ext@b\":\"uuid-2\"}", {}))
      [] text = "\"{bad\"" -> JsonOk(JsonValue("str", "{bad", {}))
      [] text = "\"[1]\"" -> JsonOk(JsonValue("str", "[1]", {}))
      [] OTHER -> JsonError

\* USER_PREF_RE.match(line)
UserPrefMatch(line) ==
    /\ line.lead = "user_pref("
    /\ line.q1 \in {"\"", "'"}
    /\ line.q2 = line.q1
    /\ line.term

\* k.decode("utf-8"); json.loads(v) of a matching line: the entry, or failed.
ParsePref(line) ==
    IF line.utf8 /\ JsonLoads(line.value).ok
    THEN [ok |-> TRUE, k |-> line.name, v |-> JsonLoads(line.value).v]
    ELSE [ok |-> FALSE, k |-> "", v |-> JsonError.v]

\* The consumer of the generator: list(...), or find_uuid_by_ext_id's loop.
Consumer(who, ext) == [who |-> who, ext |-> ext, kind |-> "pending", val |-> ""]

PrefsInit ==
    /\ CodecIdle /\ CtxIdle /\ ConnIdle /\ SortIdle /\ PrinterIdle
    /\ f_pc = "running"
    /\ f_file \in PrefsFiles
    /\ f_pos = 0
    /\ f_out = <<>>
    /\ f_log = <<>>
    /\ f_res \in {Consumer("list", "")} \cup {Consumer("find", e) : e \in ExtIds}

\* read_user_prefs, one turn of its loop with the scan ended by a bad line.
ReadLine_stopOnError ==
    /\ f_pc = "running"
    /\ f_file.exists
    /\ f_pos < Len(f_file.lines)
    /\ LET line == f_file.lines[f_pos + 1]
       IN IF ~UserPrefMatch(line)
          THEN /\ f_pos' = f_pos + 1
               /\ UNCHANGED <<f_pc, f_out, f_log>>
          ELSE IF ~ParsePref(line).ok
          THEN /\ f_log' = Append(f_log, f_pos + 1)
               /\ f_pos' = Len(f_file.lines)
               /\ UNCHANGED <<f_pc, f_out>>
          ELSE /\ f_out' = Append(f_out, <<ParsePref(line).k, ParsePref(line).v>>)
               /\ f_pos' = f_pos + 1
               /\ f_pc' = "yielded"
               /\ UNCHANGED f_log
    /\ UNCHANGED <<f_file, f_res, notPrefs>>

\* read_user_prefs, one turn of its loop: the next line is passed over, logged
\* and passed over, or yielded.
ReadLine ==
    /\ f_pc = "running"
    /\ f_file.exists
    /\ f_pos < Len(f_file.lines)
    /\ LET line == f_file.lines[f_pos + 1]
       IN IF ~UserPrefMatch(line)
          THEN /\ f_pos' = f_pos + 1
               /\ UNCHANGED <<f_pc, f_out, f_log>>
          ELSE IF ~ParsePref(line).ok
          THEN /\ f_log' = Append(f_log, f_pos + 1)
               /\ f_pos' = f_pos + 1
               /\ UNCHANGED <<f_pc, f_out>>
          ELSE /\ f_out' = Append(f_out, <<ParsePref(line).k, ParsePref(line).v>>)
               /\ f_pos' = f_pos + 1
               /\ f_pc' = "yielded"
               /\ UNCHANGED f_log
    /\ UNCHANGED <<f_file, f_res, notPrefs>>

\* read_user_prefs runs out of lines, or open() raised FileNotFoundError: the
\* generator ends; find_uuid_by_ext_id falls off its loop and returns None.
EndOfPrefs ==
    /\ f_pc = "running"
    /\ ~f_file.exists \/ f_pos = Len(f_file.lines)
    /\ f_pc' = "done"
    /\ f_res' = IF f_res.who = "find"
                THEN [f_res EXCEPT !.kind = "return", !.val = "None"]
                ELSE f_res
    /\ UNCHANGED <<f_file, f_pos, f_out, f_log, notPrefs>>

\* list(read_user_prefs(...)) takes the entry and resumes the generator.
TakeEntry ==
    /\ f_pc = "yielded"
    /\ f_res.who = "list"
    /\ f_pc' = "running"
    /\ UNCHANGED <<f_file, f_pos, f_out, f_log, f_res, notPrefs>>

\* dict.get(ext_id, None) on the pairs of a JSON object.
MapGet(pairs, key) ==
    IF \E pr \in pairs : pr[1] = key
    THEN (CHOOSE pr \in pairs : pr[1] = key)[2]
    ELSE "None"

\* find_uuid_by_ext_id, the body of its loop on one entry: "continue", or the
\* value returned, or the exception that leaves the function.
FindUuidBody(name, value, ext_id) ==
    IF name # UuidsPref THEN [kind |-> "continue", val |-> ""]
    ELSE IF value.t # "str" THEN [kind |-> "raise", val |-> "TypeError"]
    ELSE IF ~JsonLoads(value.text).ok THEN [kind |-> "continue", val |-> ""]
    ELSE IF JsonLoads(value.text).v.t # "dict"
         THEN [kind |-> "raise", val |-> "AttributeError"]
    ELSE [kind |-> "return", val |-> MapGet(JsonLoads(value.text).v.pairs, ext_id)]

\* find_uuid_by_ext_id takes the entry.
FindEntry ==
    /\ f_pc = "yielded"
    /\ f_res.who = "find"
    /\ LET e == f_out[Len(f_out)]
           b == FindUuidBody(e[1], e[2], f_res.ext)
       IN IF b.kind = "continue"
          THEN f_pc' = "running" /\ UNCHANGED f_res
          ELSE /\ f_pc' = "done"
               /\ f_res' = [f_res EXCEPT !.kind = b.kind, !.val = b.val]
    /\ UNCHANGED <<f_file, f_pos, f_out, f_log, notPrefs>>

PrefsNext == ReadLine \/ EndOfPrefs \/ TakeEntry \/ FindEntry

SpecPrefs == PrefsInit /\ [][PrefsNext]_vars

\* The entries the generator has to yield: of the lines that match and whose
\* name and value parse, in file order.
RECURSIVE EntriesOf(_)
EntriesOf(lines) ==
    IF lines = <<>> THEN <<>>
    ELSE LET line == lines[Len(lines)]
             before == EntriesOf(Take(lines, Len(lines) - 1))
         IN IF UserPrefMatch(line) /\ line.utf8 /\ JsonLoads(line.value).ok
            THEN Append(before, <<line.name, JsonLoads(line.value).v>>)
            ELSE before

\* The numbers of the lines that match and do not parse.
RECURSIVE LoggedOf(_)
LoggedOf(lines) ==
    IF lines = <<>> THEN <<>>
    ELSE LET line == lines[Len(lines)]
             before == LoggedOf(Take(lines, Len(lines) - 1))
         IN IF UserPrefMatch(line) /\ ~(line.utf8 /\ JsonLoads(line.value).ok)
            THEN Append(before, Len(lines))
            ELSE before

\* The entries by the value alone: of the lines that match and whose value is
\* valid JSON, whatever the bytes of the name.
RECURSIVE EntriesByValueOf(_)
EntriesByValueOf(lines) ==
    IF lines = <<>> THEN <<>>
    ELSE LET line == lines[Len(lines)]
             before == EntriesByValueOf(Take(lines, Len(lines) - 1))
         IN IF UserPrefMatch(line) /\ JsonLoads(line.value).ok
            THEN Append(before, <<line.name, JsonLoads(line.value).v>>)
            ELSE before

PrefsRead == f_pc = "done" /\ f_res.who = "list"

\* C9 as stated: read_user_prefs yields exactly the entries of the lines that
\* match and whose value parses as JSON, in file order; a missing file yields
\* nothing.
C9_YieldsByValue ==
    PrefsRead => f_out = EntriesByValueOf(f_file.lines)

\* C9 amended: read_user_prefs yields exactly the entries of the lines that
\* match, whose name is valid UTF-8 and whose value parses as JSON, in file
\* order; every other matching line is logged and the scan goes on; a
\* non-matching line is passed over; a missing file yields nothing and no error.
C9_ReadUserPrefs ==
    PrefsRead =>
        /\ f_out = EntriesOf(f_file.lines)
        /\ f_log = LoggedOf(f_file.lines)
        /\ ~f_file.exists => f_out = <<>> /\ f_log = <<>>

\* A scan that logged a bad line and yielded a later good one.
C9_Witness ==
    /\ PrefsRead
    /\ \E i \in 1..Len(f_log) : \E j \in (f_log[i] + 1)..Len(f_file.lines) :
        /\ UserPrefMatch(f_file.lines[j])
        /\ ParsePref(f_file.lines[j]).ok
        /\ <<f_file.lines[j].name, ParsePref(f_file.lines[j]).v>> = f_out[Len(f_out)]

UuidFound == f_pc = "done" /\ f_res.who = "find"

\* C5: find_uuid_by_ext_id never raises: it returns the UUID mapped to the
\* extension id by a string value holding a JSON object, or None.
C5_FindUuidNeverRaises ==
    UuidFound =>
        /\ f_res.kind = "return"
        /\ f_res.val # "None" =>
            \E i \in 1..Len(f_out) :
                /\ f_out[i][1] = UuidsPref
                /\ f_out[i][2].t = "str"
                /\ JsonLoads(f_out[i][2].text).ok
                /\ JsonLoads(f_out[i][2].text).v.t = "dict"
                /\ MapGet(JsonLoads(f_out[i][2].text).v.pairs, f_res.ext) = f_res.val

\* ------------------------------ read_user_contexts, find_context_id_by_name
\* Most identities of containers.json.
MaxIdentities == 2

USER_CONTEXT_WEB_EXT == <<"u", "s", "e", "r", "C", "o", "n", "t", "e", "x", "t", "I", "d", "I", "n", "t", "e", "r", "n", "a", "l", ".", "w", "e", "b", "e", "x", "t", "S", "t", "o", "r", "a", "g", "e", "L", "o", "c", "a", "l">>

\* 4294967295 as a 32-bit value in two 16-bit halves (integers here
\* end at 2^31 - 1).
U32(hi, lo) == <<hi, lo>>
DefaultContextId == U32(65535, 65535)

\* int(x) of a small container id.
IntOf(n) == U32(n \div 65536, n % 65536)

UpperCase == <<"P", "W">>
LowerCase == <<"p", "w">>
\* str.lower() of one character
Lower(c) ==
    IF \E i \in 1..Len(UpperCase) : UpperCase[i] = c
    THEN LowerCase[CHOOSE i \in 1..Len(UpperCase) : UpperCase[i] = c]
    ELSE c

\* str.removeprefix
RemovePrefix(t, pre) == IF StartsWith(t, pre) THEN Drop(t, Len(pre)) ELSE t

UserContextPrefix == <<"u", "s", "e", "r", "C", "o", "n", "t", "e", "x", "t">>
UserContextDashPrefix == <<"u", "s", "e", "r", "-", "c", "o", "n", "t", "e", "x", "t", "-">>

\* An identity of containers.json: its "name" (has_name FALSE: absent or null),
\* which l10n key it has ("l10nID", "l10nId" or "none") and that key's text, and
\* its "userContextId" ("int": cid; "text": a string int() refuses; "none":
\* absent).
Identity(has_name, name, l10n_key, l10n, cid_kind, cid) ==
    [has_name |-> has_name, name |-> name, l10n_key |-> l10n_key, l10n |-> l10n,
     cid_kind |-> cid_kind, cid |-> cid]

Identities ==
    { Identity(TRUE, <<"w", "o", "r", "k">>, "none", <<>>, "int", 1),
      Identity(TRUE, <<"w", "o", "r", "k">>, "none", <<>>, "int", 2),
      Identity(TRUE, <<"u", "s", "e", "r", "C", "o", "n", "t", "e", "x", "t", "I", "d", "I", "n", "t", "e", "r", "n", "a", "l", ".", "w", "e", "b", "e", "x", "t", "S", "t", "o", "r", "a", "g", "e", "L", "o", "c", "a", "l">>, "none", <<>>, "int", 9),
      Identity(FALSE, <<>>, "l10nID", <<"u", "s", "e", "r", "C", "o", "n", "t", "e", "x", "t", "P", "e", "r", "s", "o", "n", "a", "l", ".", "l", "a", "b", "e", "l">>, "int", 3),
      Identity(FALSE, <<>>, "l10nId", <<"u", "s", "e", "r", "-", "c", "o", "n", "t", "e", "x", "t", "-", "p", "e", "r", "s", "o", "n", "a", "l">>, "int", 3),
      Identity(FALSE, <<>>, "l10nID", <<"u", "s", "e", "r", "C", "o", "n", "t", "e", "x", "t">>, "int", 4),
      Identity(FALSE, <<>>, "none", <<>>, "int", 5),
      Identity(TRUE, <<"w", "o", "r", "k">>, "none", <<>>, "text", 0),
      Identity(TRUE, <<"w", "o", "r", "k">>, "none", <<>>, "none", 0) }

\* containers.json: missing, not JSON, or a JSON value: an object (is_dict) with
\* or without "version" and "identities", or something else.
Containers(file, is_dict, has_version, version, has_identities, identities) ==
    [file |-> file, is_dict |-> is_dict, has_version |-> has_version,
     version |-> version, has_identities |-> has_identities,
     identities |-> identities]

ContainersFiles ==
    { Containers("missing", FALSE, FALSE, 0, FALSE, <<>>),
      Containers("notjson", FALSE, FALSE, 0, FALSE, <<>>),
      Containers("json", FALSE, FALSE, 0, FALSE, <<>>),
      Containers("json", TRUE, FALSE, 0, TRUE, <<>>),
      Containers("json", TRUE, TRUE, 3, TRUE, <<>>),
      Containers("json", TRUE, TRUE, 4, FALSE, <<>>) }
    \cup { Containers("json", TRUE, TRUE, v, TRUE, ids) :
             v \in {4, 5}, ids \in SeqsUpTo(Identities, MaxIdentities) }

ContextNames == {<<"w", "o", "r", "k">>, <<"p", "e", "r", "s", "o", "n", "a", "l">>, <<"u", "s", "e", "r", "C", "o", "n", "t", "e", "x", "t", "I", "d", "I", "n", "t", "e", "r", "n", "a", "l", ".", "w", "e", "b", "e", "x", "t", "S", "t", "o", "r", "a", "g", "e", "L", "o", "c", "a", "l">>, <<"n", "o", "p", "e">>}

\* How the generator stands or ended: running, exhausted, an exception caught
\* by its own except clause (it prints and ends), or one raised to the caller.
Running == [kind |-> "running", exc |-> ""]
Exhausted == [kind |-> "exhausted", exc |-> ""]
Caught(exc) == [kind |-> "caught", exc |-> exc]
Raised(exc) == [kind |-> "raised", exc |-> exc]
CaughtExceptions == {"AssertionError", "FileNotFoundError", "ValueError"}
Throw(exc) == IF exc \in CaughtExceptions THEN Caught(exc) ELSE Raised(exc)

\* read_user_contexts up to its loop: "" when the loop is reached, else the
\* exception of open(), json.load, data["version"], the assert or
\* data["identities"].
OpenContainers(data) ==
    IF data.file = "missing" THEN "FileNotFoundError"
    ELSE IF data.file = "notjson" THEN "ValueError"
    ELSE IF ~data.is_dict THEN "TypeError"
    ELSE IF ~data.has_version THEN "KeyError"
    ELSE IF data.version \notin {4, 5} THEN "AssertionError"
    ELSE IF ~data.has_identities THEN "KeyError"
    ELSE ""

\* The name of an identity as one turn of the loop computes it: [exc, name].
NameOf(identity, version) ==
    IF identity.has_name THEN [exc |-> "", name |-> identity.name]
    ELSE IF version = 4
    THEN IF identity.l10n_key # "l10nID" THEN [exc |-> "KeyError", name |-> <<>>]
         ELSE LET name == Split1(identity.l10n, <<".">>)[1]
              IN IF StartsWith(name, UserContextPrefix)
                 THEN IF Len(name) < 12 THEN [exc |-> "IndexError", name |-> <<>>]
                      ELSE [exc |-> "", name |-> <<Lower(name[12])>> \o Drop(name, 12)]
                 ELSE [exc |-> "", name |-> name]
    ELSE IF identity.l10n_key # "l10nId" THEN [exc |-> "KeyError", name |-> <<>>]
         ELSE [exc |-> "", name |-> RemovePrefix(identity.l10n, UserContextDashPrefix)]

\* int(identity["userContextId"]): [exc, id]
IdOf(identity) ==
    IF identity.cid_kind = "none" THEN [exc |-> "KeyError", id |-> IntOf(0)]
    ELSE IF identity.cid_kind = "text" THEN [exc |-> "ValueError", id |-> IntOf(0)]
    ELSE [exc |-> "", id |-> IntOf(identity.cid)]

\* The consumer of the generator: list(...), or find_context_id_by_name's loop.
CtxConsumer(who, name) ==
    [who |-> who, name |-> name, kind |-> "pending", id |-> IntOf(0), exc |-> ""]

CtxInit ==
    /\ CodecIdle /\ PrefsIdle /\ ConnIdle /\ SortIdle /\ PrinterIdle
    /\ x_pc = "start"
    /\ x_data \in ContainersFiles
    /\ x_pos = 0
    /\ x_yield = <<>>
    /\ x_end = Running
    /\ x_res \in {CtxConsumer("list", <<>>)} \cup {CtxConsumer("find", n) : n \in ContextNames}

\* The generator ends (returning or raising) and its caller goes on from there:
\* find_context_id_by_name lets an exception through, and after the loop
\* returns the default id for USER_CONTEXT_WEB_EXT and raises KeyError(name)
\* for any other name.
AfterGenerator(end, res) ==
    IF res.who # "find" THEN res
    ELSE IF end.kind = "raised" THEN [res EXCEPT !.kind = "raise", !.exc = end.exc]
    ELSE IF res.name = USER_CONTEXT_WEB_EXT
         THEN [res EXCEPT !.kind = "return", !.id = DefaultContextId]
    ELSE [res EXCEPT !.kind = "raise", !.exc = "KeyError(name)"]

\* read_user_contexts from its first line to its loop.
OpenContexts ==
    /\ x_pc = "start"
    /\ LET exc == OpenContainers(x_data)
       IN IF exc = ""
          THEN x_pc' = "running" /\ UNCHANGED <<x_end, x_res>>
          ELSE /\ x_pc' = "done"
               /\ x_end' = Throw(exc)
               /\ x_res' = AfterGenerator(Throw(exc), x_res)
    /\ UNCHANGED <<x_data, x_pos, x_yield, notCtx>>

\* read_user_contexts, one turn of its loop: the identity is yielded, or an
\* exception ends the generator.
NextIdentity ==
    /\ x_pc = "running"
    /\ x_pos < Len(x_data.identities)
    /\ LET identity == x_data.identities[x_pos + 1]
           n == NameOf(identity, x_data.version)
           i == IdOf(identity)
           exc == IF n.exc # "" THEN n.exc ELSE i.exc
       IN IF exc = ""
          THEN /\ x_yield' = Append(x_yield, <<i.id, n.name>>)
               /\ x_pos' = x_pos + 1
               /\ x_pc' = "yielded"
               /\ UNCHANGED <<x_end, x_res>>
          ELSE /\ x_pc' = "done"
               /\ x_end' = Throw(exc)
               /\ x_res' = AfterGenerator(Throw(exc), x_res)
               /\ UNCHANGED <<x_pos, x_yield>>
    /\ UNCHANGED <<x_data, notCtx>>

\* read_user_contexts runs out of identities.
EndOfIdentities ==
    /\ x_pc = "running"
    /\ x_pos = Len(x_data.identities)
    /\ x_pc' = "done"
    /\ x_end' = Exhausted
    /\ x_res' = AfterGenerator(Exhausted, x_res)
    /\ UNCHANGED <<x_data, x_pos, x_yield, notCtx>>

\* list(read_user_contexts(...)) takes the pair and resumes the generator.
TakeContext ==
    /\ x_pc = "yielded"
    /\ x_res.who = "list"
    /\ x_pc' = "running"
    /\ UNCHANGED <<x_data, x_pos, x_yield, x_end, x_res, notCtx>>

\* find_context_id_by_name takes the pair: a match returns its id.
FindContext ==
    /\ x_pc = "yielded"
    /\ x_res.who = "find"
    /\ LET e == x_yield[Len(x_yield)]
       IN IF e[2] = x_res.name
          THEN /\ x_pc' = "done"
               /\ x_res' = [x_res EXCEPT !.kind = "return", !.id = e[1]]
          ELSE x_pc' = "running" /\ UNCHANGED x_res
    /\ UNCHANGED <<x_data, x_pos, x_yield, x_end, notCtx>>

CtxNext == OpenContexts \/ NextIdentity \/ EndOfIdentities \/ TakeContext \/ FindContext

SpecCtx == CtxInit /\ [][CtxNext]_vars

CtxEnded == x_pc = "done"

\* The pairs the identities stand for: of each identity whose name and id
\* resolve, in file order; none when the file is missing or cannot be parsed.
RECURSIVE KnownOf(_, _)
KnownOf(identities, version) ==
    IF identities = <<>> THEN <<>>
    ELSE LET identity == identities[Len(identities)]
             before == KnownOf(Take(identities, Len(identities) - 1), version)
         IN IF NameOf(identity, version).exc = "" /\ IdOf(identity).exc = ""
            THEN Append(before, <<IdOf(identity).id, NameOf(identity, version).name>>)
            ELSE before

KnownContexts(data) ==
    IF OpenContainers(data) = "" THEN KnownOf(data.identities, data.version) ELSE <<>>

\* C4: read_user_contexts never fails: whatever containers.json holds, it
\* raises no error to its caller, and an identity whose name cannot be resolved
\* is skipped while the remaining identities are still yielded.
C4_NeverFails ==
    /\ x_end.kind # "raised"
    /\ CtxEnded /\ x_res.who = "list" => x_yield = KnownContexts(x_data)

\* C6: find_context_id_by_name returns the id of the first identity of that
\* name; with no such identity it returns 4294967295 for
\* USER_CONTEXT_WEB_EXT and fails with KeyError(name) for any other name, also
\* when the container list is missing or cannot be parsed.
C6_FindContextIdByName ==
    CtxEnded /\ x_res.who = "find" =>
        LET known == KnownContexts(x_data)
            at == {i \in 1..Len(known) : known[i][2] = x_res.name}
        IN IF at # {}
           THEN /\ x_res.kind = "return"
                /\ x_res.id = known[CHOOSE i \in at : \A j \in at : i <= j][1]
           ELSE IF x_res.name = USER_CONTEXT_WEB_EXT
           THEN x_res.kind = "return" /\ x_res.id = DefaultContextId
           ELSE x_res.kind = "raise" /\ x_res.exc = "KeyError(name)"

\* ---------------------------------- the store connection: main, discover_idbs
\* Most entries of a site's idb directory.
MaxDbFiles == 2

\* An entry of the idb directory: whether its name ends in .sqlite, whether
\* the store opens ("unopenable": mozidb.IndexedDB(path) raises), whether it
\* reads ("unreadable": get_name raises), and whether it has a name.
DbEntries ==
    { [sqlite |-> FALSE, state |-> "ok", named |-> FALSE],
      [sqlite |-> TRUE, state |-> "ok", named |-> TRUE],
      [sqlite |-> TRUE, state |-> "ok", named |-> FALSE],
      [sqlite |-> TRUE, state |-> "unopenable", named |-> FALSE],
      [sqlite |-> TRUE, state |-> "unreadable", named |-> FALSE] }

\* How main reaches its database: "dbpath" (--dbpath, --extension, or --site
\* with --sdb naming a file), "list" (--site alone: the databases are listed),
\* "sdb" (--site with --sdb naming a database to look up).
Modes == {"dbpath", "list", "sdb"}

\* The connection main opens is number 0; discover_idbs' are numbered by the
\* directory entry.
MainConn == 0

\* mozidb.IndexedDB(path): the connection is open when the constructor returns
\* and not when it raises.
IndexedDB_open(open, conn) == open \cup {conn}

\* mozidb.IndexedDB.__exit__: the connection is closed.
IndexedDB_exit(open, conn) == open \ {conn}

\* A connection closed at the end of the block and left open by an exception:
\* conn = IndexedDB(path); ...; conn.close().
ExitWith_noFinally(open, conn, raising) ==
    IF raising THEN open ELSE IndexedDB_exit(open, conn)

\* with mozidb.IndexedDB(path) as conn: the block is left, by its end or by an
\* exception: __exit__ is called either way.
ExitWith(open, conn, raising) == IndexedDB_exit(open, conn)

ConnInit ==
    /\ CodecIdle /\ PrefsIdle /\ CtxIdle /\ SortIdle /\ PrinterIdle
    /\ m_pc = "start"
    /\ m_files \in {[mode |-> mode, entries |-> es, main |-> st] :
                      mode \in Modes, es \in SeqsUpTo(DbEntries, MaxDbFiles),
                      st \in {"ok", "unopenable"}}
    /\ m_idx = 0
    /\ m_open = {}
    /\ m_opened = 0
    /\ m_dbs = {}

\* main up to the database: straight to its with statement, or by discover_idbs.
StartMain ==
    /\ m_pc = "start"
    /\ m_pc' = IF m_files.mode = "dbpath" THEN "open" ELSE "discover"
    /\ UNCHANGED <<m_files, m_idx, m_open, m_opened, m_dbs, notConn>>

\* discover_idbs: an entry that is no .sqlite file is passed over.
SkipEntry ==
    /\ m_pc = "discover"
    /\ m_idx < Len(m_files.entries)
    /\ ~m_files.entries[m_idx + 1].sqlite
    /\ m_idx' = m_idx + 1
    /\ UNCHANGED <<m_pc, m_files, m_open, m_opened, m_dbs, notConn>>

\* discover_idbs: with mozidb.IndexedDB(db_path) as conn
OpenEntry ==
    /\ m_pc = "discover"
    /\ m_idx < Len(m_files.entries)
    /\ m_files.entries[m_idx + 1].sqlite
    /\ IF m_files.entries[m_idx + 1].state = "unopenable"
       THEN m_pc' = "raised" /\ UNCHANGED <<m_open, m_opened>>
       ELSE /\ m_pc' = "get_name"
            /\ m_open' = IndexedDB_open(m_open, m_idx + 1)
            /\ m_opened' = m_opened + 1
    /\ UNCHANGED <<m_files, m_idx, m_dbs, notConn>>

\* discover_idbs: db_name = conn.get_name(), dbs[db_name] = db_path, and the
\* with block is left.
GetName ==
    /\ m_pc = "get_name"
    /\ LET e == m_files.entries[m_idx + 1]
           raising == e.state = "unreadable"
       IN /\ m_open' = ExitWith(m_open, m_idx + 1, raising)
          /\ m_pc' = IF raising THEN "raised" ELSE "discover"
          /\ m_dbs' = IF ~raising /\ e.named THEN m_dbs \cup {m_idx + 1} ELSE m_dbs
          /\ m_idx' = IF raising THEN m_idx ELSE m_idx + 1
    /\ UNCHANGED <<m_files, m_opened, notConn>>

\* discover_idbs returns: main lists the databases and returns 0, or goes on
\* with the database --sdb names, or ends in parser.error.
Discovered ==
    /\ m_pc = "discover"
    /\ m_idx = Len(m_files.entries)
    /\ m_pc' = IF m_files.mode = "list" THEN "returned"
               ELSE IF m_dbs # {} THEN "open"
               ELSE "raised"
    /\ UNCHANGED <<m_files, m_idx, m_open, m_opened, m_dbs, notConn>>

\* main: with mozidb.IndexedDB(db_path) as conn
OpenMain ==
    /\ m_pc = "open"
    /\ IF m_files.main = "unopenable"
       THEN m_pc' = "raised" /\ UNCHANGED <<m_open, m_opened>>
       ELSE /\ m_pc' = "search"
            /\ m_open' = IndexedDB_open(m_open, MainConn)
            /\ m_opened' = m_opened + 1
    /\ UNCHANGED <<m_files, m_idx, m_dbs, notConn>>

\* main: jmespath.search(args.key_name, IDBObjectWrapper(conn)); the query or a
\* read of the store may raise.
Search ==
    /\ m_pc = "search"
    /\ \E raising \in BOOLEAN :
        IF raising
        THEN m_pc' = "raised" /\ m_open' = ExitWith(m_open, MainConn, TRUE)
        ELSE m_pc' = "pprint" /\ UNCHANGED m_open
    /\ UNCHANGED <<m_files, m_idx, m_opened, m_dbs, notConn>>

\* main: pretty_printer.pprint(...), which reads the store through the wrapper
\* and may raise; the with block is left and main returns 0.
Pprint ==
    /\ m_pc = "pprint"
    /\ \E raising \in BOOLEAN :
        /\ m_open' = ExitWith(m_open, MainConn, raising)
        /\ m_pc' = IF raising THEN "raised" ELSE "returned"
    /\ UNCHANGED <<m_files, m_idx, m_opened, m_dbs, notConn>>

ConnNext ==
    StartMain \/ SkipEntry \/ OpenEntry \/ GetName \/ Discovered \/ OpenMain
    \/ Search \/ Pprint

SpecConn == ConnInit /\ [][ConnNext]_vars

\* C3: the store connection is released on every exit path: at most one
\* connection is open at any time, and none when main has returned or an error
\* has left it.
C3_ConnectionReleased ==
    /\ Cardinality(m_open) <= 1
    /\ m_pc \in {"returned", "raised"} => m_open = {}

\* An error left main after both discover_idbs and main had opened a store.
C3_Witness ==
    m_pc = "raised" /\ m_opened >= 2 /\ m_dbs # {} /\ m_open = {}

\* ------------------------------------------- IDBObjectWrapper, _safe_repr
\* Containers of a value graph, most references and scalars held by all the
\* containers together, and the largest depth limit.
NumObjs == 2
MaxCells == 3
MaxDepth == 1

\* A value: a scalar object, or a reference to the container whose identity
\* (id()) is id.
Ref(i) == KeyObject("ref", 0, <<>>, {}, i)
IntOne == KeyObject("int", 2, <<>>, {}, 31)
Opaque == KeyObject("object", 0, <<>>, {}, 32)
Undefined == KeyObject("NotImplementedType", 0, <<>>, {}, 33)
NoKey == KeyObject("NoneType", 0, <<>>, {}, 0)

\* The key a mapping holds at each place of its insertion order: "b", "a", "c", "e".
KeyLetters == <<"b", "a", "c", "e">>
KeyAt(i) == KeyObject("str", 0, <<KeyLetters[((i - 1) % Len(KeyLetters)) + 1]>>, {}, 20 + i)

\* A container: its type and its members in order, as items (key, value); a
\* list or tuple has no keys.
Container(typ, vals) ==
    [typ |-> typ,
     items |-> [i \in DOMAIN vals |->
                   <<IF typ = "dict" THEN KeyAt(i) ELSE NoKey, vals[i]>>]]

\* mozidb.IndexedDB.count_objects
count_objects(rows) == Len(rows)

\* mozidb.IndexedDB.read_objects: the rows as a dict, in the store's order.
read_objects(rows) == rows

\* mozidb.IndexedDB.list_objects
list_objects(rows) == [i \in DOMAIN rows |-> rows[i][1]]

\* IDBObjectWrapper.__len__
WrapperLen(rows) == count_objects(rows)

\* IDBObjectWrapper.items
WrapperItems(rows) == read_objects(rows)

\* IDBObjectWrapper.keys, __iter__
WrapperKeys(rows) == list_objects(rows)

\* len(object) and object.items() of a container of the graph
LenOf(o, rows) == IF o.typ = "IDBObjectWrapper" THEN WrapperLen(rows) ELSE Len(o.items)
ItemsOf(o, rows) == IF o.typ = "IDBObjectWrapper" THEN WrapperItems(rows) ELSE o.items

\* _builtin_scalars, of the types that occur
BuiltinScalars == {"str", "int", "float", "NoneType"}

QuoteChar == "\""

\* json.dumps(object, ensure_ascii=False) of a scalar (the strings that occur
\* need no escapes)
JsonDumps(object) ==
    CASE object.typ = "str" -> <<QuoteChar>> \o object.chars \o <<QuoteChar>>
      [] object.typ = "int" -> IntToStr(object.num \div 2)
      [] object.typ = "float" ->
            IntToStr(object.num \div 2) \o <<".">> \o IntToStr(5 * (object.num % 2))
      [] object.typ = "NoneType" -> <<"null">>

\* ", ".join(components)
RECURSIVE Join(_)
Join(components) ==
    IF components = <<>> THEN <<>>
    ELSE IF Len(components) = 1 THEN components[1]
    ELSE components[1] \o <<", ">> \o Join(Tail(components))

\* _recursion(object)
Recursion(typ, objid) ==
    <<"<Recursion on ", typ, " with id=">> \o IntToStr(objid) \o <<">">>

\* repr(object) of what is neither a scalar nor a container _safe_repr knows:
\* object() prints as <object object at 0x...>; an IDBObjectWrapper prints by
\* its own __repr__, the keys and values in Python's repr (a str in single
\* quotes, a container left as "...": the branch is not taken while the
\* wrapper counts as a dict).
PyRepr(object, rows) ==
    IF object.typ = "ref"
    THEN <<"{">> \o Join([i \in DOMAIN WrapperItems(rows) |->
                    <<"'">> \o WrapperItems(rows)[i][1].chars \o <<"'", ": ", "...">>])
         \o <<"}">>
    ELSE <<"<", "object object at 0x32", ">">>

\* The result of a call: rep, readable, recursive; set FALSE while none is due.
Result(rep, readable, recursive) ==
    [set |-> TRUE, rep |-> rep, readable |-> readable, recursive |-> recursive]
NoResult == [set |-> FALSE, rep |-> <<>>, readable |-> FALSE, recursive |-> FALSE]

\* issubclass(typ, dict) alone, as pprint's own _safe_repr has it.
DictLike_dictOnly(typ) == typ = "dict"

\* issubclass(typ, (dict, IDBObjectWrapper)) and r in (dict.__repr__,
\* IDBObjectWrapper.__repr__)
DictLike(typ) == typ \in {"dict", "IDBObjectWrapper"}

\* (issubclass(typ, list) and r is list.__repr__) or (issubclass(typ, tuple)
\* and r is tuple.__repr__)
SequenceLike(typ) == typ \in {"list", "tuple"}

\* format % inner, for each container type and length
Format(typ, n, inner) ==
    IF DictLike(typ) THEN <<"{">> \o inner \o <<"}">>
    ELSE IF typ = "list" THEN <<"[">> \o inner \o <<"]">>
    ELSE IF n = 1 THEN <<"(">> \o inner \o <<",", ")">>
    ELSE <<"(">> \o inner \o <<")">>

\* _safe_repr without the test of the context: a container is descended into
\* again wherever it is met.
SafeReprEntry_noCycleCheck(object, ctx, maxlv, level, h, rows) ==
    IF object.typ = "NotImplementedType"
    THEN [descend |-> FALSE, res |-> Result(<<"undefined">>, TRUE, FALSE)]
    ELSE IF object.typ \in BuiltinScalars
    THEN [descend |-> FALSE, res |-> Result(JsonDumps(object), TRUE, FALSE)]
    ELSE IF object.typ = "ref" /\ (DictLike(h[object.id].typ) \/ SequenceLike(h[object.id].typ))
    THEN LET o == h[object.id]
             n == LenOf(o, rows)
         IN IF n = 0
            THEN [descend |-> FALSE, res |-> Result(Format(o.typ, 0, <<>>), TRUE, FALSE)]
            ELSE IF maxlv # 0 /\ level >= maxlv
            THEN [descend |-> FALSE,
                  res |-> Result(Format(o.typ, n, <<"...">>), FALSE, object.id \in ctx)]
            ELSE [descend |-> TRUE, res |-> NoResult]
    ELSE LET rep == PyRepr(object, rows)
         IN [descend |-> FALSE, res |-> Result(rep, rep # <<>> /\ rep[1] # "<", FALSE)]

\* _safe_repr from its first line to the point where it either returns at once
\* or starts on the members of a container: descend TRUE, or the triple
\* returned.
SafeReprEntry(object, ctx, maxlv, level, h, rows) ==
    IF object.typ = "NotImplementedType"
    THEN [descend |-> FALSE, res |-> Result(<<"undefined">>, TRUE, FALSE)]
    ELSE IF object.typ \in BuiltinScalars
    THEN [descend |-> FALSE, res |-> Result(JsonDumps(object), TRUE, FALSE)]
    ELSE IF object.typ = "ref" /\ (DictLike(h[object.id].typ) \/ SequenceLike(h[object.id].typ))
    THEN LET o == h[object.id]
             n == LenOf(o, rows)
         IN IF n = 0
            THEN [descend |-> FALSE, res |-> Result(Format(o.typ, 0, <<>>), TRUE, FALSE)]
            ELSE IF maxlv # 0 /\ level >= maxlv
            THEN [descend |-> FALSE,
                  res |-> Result(Format(o.typ, n, <<"...">>), FALSE, object.id \in ctx)]
            ELSE IF object.id \in ctx
            THEN [descend |-> FALSE,
                  res |-> Result(Recursion(o.typ, object.id), FALSE, TRUE)]
            ELSE [descend |-> TRUE, res |-> NoResult]
    ELSE LET rep == PyRepr(object, rows)
         IN [descend |-> FALSE, res |-> Result(rep, rep # <<>> /\ rep[1] # "<", FALSE)]

\* The frame of a call that is going through the members of a container:
\* the items (sorted or not), the next one, the components so far, the two
\* flags, and the level of the members.
Frame(objid, o, rows, level, sorting) ==
    [obj |-> objid,
     typ |-> o.typ,
     items |-> IF DictLike(o.typ) /\ sorting THEN Sorted(ItemsOf(o, rows))
               ELSE ItemsOf(o, rows),
     idx |-> 1,
     components |-> <<>>,
     readable |-> TRUE,
     recursive |-> FALSE,
     level |-> level + 1]

\* The containers being rendered above the point of the call.
Ancestors == {stack[i].obj : i \in DOMAIN stack}

\* A call met a container that is being rendered above it.
CycleEdge(object) ==
    /\ object.typ = "ref"
    /\ LenOf(heap[object.id], store) > 0
    /\ object.id \in Ancestors

\* _safe_repr(object, context, maxlevels, level, sort_dicts) is called.
Call(object, level) ==
    LET e == SafeReprEntry(object, context, maxlevels, level, heap, store)
        cut == maxlevels # 0 /\ level >= maxlevels
    IN /\ IF e.descend
          THEN /\ stack' = Append(stack, Frame(object.id, heap[object.id], store, level, sort_dicts))
               /\ context' = context \cup {object.id}
          ELSE UNCHANGED <<stack, context>>
       /\ ret' = e.res
       /\ hits' = IF CycleEdge(object) /\ ~cut THEN hits + 1 ELSE hits
       /\ cuts' = IF CycleEdge(object) /\ cut THEN cuts + 1 ELSE cuts
       /\ steps' = steps + 1

Rendered == p_pc = "ready" /\ Len(results) = Len(root)

\* PrettyPrinter.format on the next value to print: the outermost call, on
\* the value and at the level that root gives.
Start ==
    /\ p_pc = "ready"
    /\ Len(results) < Len(root)
    /\ p_pc' = "rendering"
    /\ Call(root[Len(results) + 1][1], root[Len(results) + 1][2])
    /\ UNCHANGED <<heap, store, store0, root, maxlevels, sort_dicts, results, notPrinter>>

Top == stack[Len(stack)]

\* The loop over the members calls _safe_repr on the next value.
Descend ==
    /\ p_pc = "rendering"
    /\ ~ret.set
    /\ stack # <<>>
    /\ Top.idx <= Len(Top.items)
    /\ Call(Top.items[Top.idx][2], Top.level)
    /\ UNCHANGED <<p_pc, heap, store, store0, root, maxlevels, sort_dicts, results, notPrinter>>

\* The call returns into the loop: the component is appended (with the key's
\* own _safe_repr before it in a mapping) and the flags are updated.
Collect ==
    /\ p_pc = "rendering"
    /\ ret.set
    /\ stack # <<>>
    /\ LET f == Top
           k == SafeReprEntry(f.items[f.idx][1], context, maxlevels, f.level, heap, store).res
           comp == IF DictLike(f.typ) THEN k.rep \o <<": ">> \o ret.rep ELSE ret.rep
           kreadable == IF DictLike(f.typ) THEN k.readable ELSE TRUE
           krecur == IF DictLike(f.typ) THEN k.recursive ELSE FALSE
           g == [f EXCEPT !.components = Append(f.components, comp),
                          !.readable = f.readable /\ kreadable /\ ret.readable,
                          !.recursive = f.recursive \/ krecur \/ ret.recursive,
                          !.idx = f.idx + 1]
       IN stack' = [stack EXCEPT ![Len(stack)] = g]
    /\ ret' = NoResult
    /\ steps' = steps + 1
    /\ UNCHANGED <<p_pc, heap, store, store0, root, maxlevels, sort_dicts, context,
                   results, hits, cuts, notPrinter>>

\* The loop ends with the identity left in the context.
Finish_keepsContext ==
    /\ p_pc = "rendering"
    /\ ~ret.set
    /\ stack # <<>>
    /\ Top.idx > Len(Top.items)
    /\ ret' = Result(Format(Top.typ, Len(Top.items), Join(Top.components)),
                     Top.readable, Top.recursive)
    /\ stack' = Take(stack, Len(stack) - 1)
    /\ steps' = steps + 1
    /\ UNCHANGED <<p_pc, heap, store, store0, root, maxlevels, sort_dicts, context,
                   results, hits, cuts, notPrinter>>

\* The loop ends: del context[objid], and the container's triple is returned.
Finish ==
    /\ p_pc = "rendering"
    /\ ~ret.set
    /\ stack # <<>>
    /\ Top.idx > Len(Top.items)
    /\ context' = context \ {Top.obj}
    /\ ret' = Result(Format(Top.typ, Len(Top.items), Join(Top.components)),
                     Top.readable, Top.recursive)
    /\ stack' = Take(stack, Len(stack) - 1)
    /\ steps' = steps + 1
    /\ UNCHANGED <<p_pc, heap, store, store0, root, maxlevels, sort_dicts,
                   results, hits, cuts, notPrinter>>

\* The outermost call returns its triple.
Return ==
    /\ p_pc = "rendering"
    /\ ret.set
    /\ stack = <<>>
    /\ results' = Append(results, ret)
    /\ ret' = NoResult
    /\ p_pc' = "ready"
    /\ steps' = steps + 1
    /\ UNCHANGED <<heap, store, store0, root, maxlevels, sort_dicts, stack, context,
                   hits, cuts, notPrinter>>

PrinterNext == Start \/ Descend \/ Collect \/ Finish \/ Return

\* The value graphs: up to NumObjs containers, each a dict, a list or a tuple,
\* all reachable from the first (what nothing refers to is not there to be
\* printed), holding between them at most MaxCells members, each a reference
\* to one of the containers, an int or an opaque object.
ContainerTypes == {"dict", "list", "tuple"}
MembersOf(n) == {Ref(i) : i \in 1..n} \cup {IntOne, Opaque}

\* The ways to give n containers lengths that add up to at most c.
RECURSIVE Lengths(_, _)
Lengths(n, c) ==
    IF n = 0 THEN {<<>>}
    ELSE UNION { {Append(l, k) : l \in Lengths(n - 1, c - k)} : k \in 0..c }

\* The member sequences of n containers of the given lengths.
RECURSIVE MemberSeqs(_, _, _)
MemberSeqs(lens, k, n) ==
    IF k = 0 THEN {<<>>}
    ELSE {Append(p, m) : p \in MemberSeqs(lens, k - 1, n), m \in [1..lens[k] -> MembersOf(n)]}

\* The containers a member sequence refers to that are not known yet, in the
\* order met.
RECURSIVE NewRefs(_, _)
NewRefs(vals, known) ==
    IF vals = <<>> THEN <<>>
    ELSE LET m == Head(vals)
         IN IF m.typ = "ref" /\ m.id \notin known
            THEN <<m.id>> \o NewRefs(Tail(vals), known \cup {m.id})
            ELSE NewRefs(Tail(vals), known)

\* The containers in the order in which they are found from the first.
RECURSIVE Discover(_, _, _)
Discover(v, order, k) ==
    IF k > Len(order) THEN order
    ELSE Discover(v, order \o NewRefs(v[order[k]], {order[i] : i \in DOMAIN order}), k + 1)

\* Every container is reachable from the first, and the identities are
\* numbered in the order of discovery (the numbering of a graph is free: an
\* identity shows only in the text of a recursion marker).
InOrder(v) == Discover(v, <<1>>, 1) = [i \in 1..Len(v) |-> i]

HeapOf(t, v) == [i \in DOMAIN v |-> Container(t[i], v[i])]

PrinterInit ==
    /\ CodecIdle /\ PrefsIdle /\ CtxIdle /\ ConnIdle /\ SortIdle
    /\ p_pc = "ready"
    /\ \E n \in 1..NumObjs : \E lens \in Lengths(n, MaxCells) :
         \E t \in [1..n -> ContainerTypes] : \E v \in MemberSeqs(lens, n, n) :
            InOrder(v) /\ heap = HeapOf(t, v)
    /\ store = <<>>
    /\ store0 = <<>>
    /\ root = <<<<Ref(1), 0>>>>
    /\ maxlevels \in 0..MaxDepth
    /\ sort_dicts \in BOOLEAN
    /\ stack = <<>>
    /\ context = {}
    /\ ret = NoResult
    /\ results = <<>>
    /\ hits = 0
    /\ cuts = 0
    /\ steps = 0

SpecPrinter == PrinterInit /\ [][PrinterNext]_vars

\* The number of recursion markers in a rendered text.
Markers(rep) == Cardinality({i \in DOMAIN rep : rep[i] = "<Recursion on "})

RECURSIVE Cells(_)
Cells(h) == IF h = <<>> THEN 0 ELSE Len(Head(h).items) + Cells(Tail(h))

RECURSIVE Power(_, _)
Power(b, e) == IF e = 0 THEN 1 ELSE b * Power(b, e - 1)

RECURSIVE Descents(_, _)
Descents(c, n) == IF n = 0 THEN 0 ELSE Power(c, n - 1) + Descents(c, n - 1)

\* A bound on the steps of rendering a graph of n containers and c members: a
\* container is descended into once for each chain of distinct containers
\* that leads to it, each descent calls once per member, and every call
\* returns once.
StepBound ==
    LET c == Cells(heap)
        d == Descents(c, Len(heap))
    IN 2 * (1 + c * d) + d

\* The guards of the printer's steps: the next value is due to be printed, a
\* call has a result to hand back, or a loop over members is under way.
CanStep ==
    \/ p_pc = "ready" /\ Len(results) < Len(root)
    \/ p_pc = "rendering" /\ (ret.set \/ stack # <<>>)

\* C2, as stated: _safe_repr terminates, and every cycle edge gives exactly
\* one recursion marker in the text and makes the result recursive and not
\* readable.
C2_MarkerPerCycleEdge ==
    /\ steps <= StepBound
    /\ Rendered =>
          /\ Markers(results[1].rep) = hits + cuts
          /\ hits + cuts > 0 => results[1].recursive /\ ~results[1].readable

\* C2, amended: _safe_repr terminates (a rendering that is not complete can
\* always take its next step, and the steps are bounded by the size of the
\* graph); every cycle edge met below the depth limit gives exactly one
\* recursion marker, a cycle edge met at the depth limit gives the elided
\* form and no marker, and either makes the result recursive and not readable.
C2_SafeReprTerminates ==
    /\ steps <= StepBound
    /\ ~Rendered => CanStep
    /\ Rendered =>
          /\ Markers(results[1].rep) = hits
          /\ hits + cuts > 0 => results[1].recursive /\ ~results[1].readable

\* Two containers that hold each other and themselves: two cycle edges met,
\* two markers in the text.
C2_Witness ==
    /\ Rendered
    /\ Len(heap) = 2
    /\ maxlevels = 0
    /\ hits = 2
    /\ Markers(results[1].rep) = 2
    /\ results[1].recursive

Distinct(s) == \A i, j \in DOMAIN s : s[i].obj = s[j].obj => i = j

HoldsOpaque == \E i \in DOMAIN heap : \E j \in DOMAIN heap[i].items :
                  heap[i].items[j][2] = Opaque

\* C10: an identity is in the context exactly while its container is being
\* rendered above the point of the call, each once; the context is empty
\* before and after a top-level render; and a graph without a cycle edge,
\* shared children included, renders with no recursion marker, not recursive,
\* and readable unless the depth limit or an opaque object makes it otherwise.
C10_ActiveSetDiscipline ==
    /\ context = Ancestors
    /\ Distinct(stack)
    /\ p_pc = "ready" => context = {} /\ stack = <<>>
    /\ Rendered /\ hits = 0 /\ cuts = 0 =>
          /\ Markers(results[1].rep) = 0
          /\ ~results[1].recursive
          /\ maxlevels = 0 /\ ~HoldsOpaque => results[1].readable

\* A list that holds the same one-element list twice is rendered with the
\* child in full both times.
C10_Witness ==
    /\ Rendered
    /\ heap = <<Container("list", <<Ref(2), Ref(2)>>), Container("list", <<IntOne>>)>>
    /\ results[1] =
          Result(<<"[", "[", "1", "]", ", ", "[", "1", "]", "]">>, TRUE, FALSE)
    /\ context = {}

\* ------------------------------- the wrapper and a dict of the same content
\* The most rows of a store.
MaxRows == 2

\* The values of a store's rows: a number, an object that is not JSON, the
\* undefined value, or the nested container, which is the third object.
RowValues == {IntOne, Opaque, Undefined, Ref(3)}

\* The nested container: a list of a number, a list that holds itself, or a
\* dict that holds itself and a number.
NestedContainers ==
    {Container("list", <<IntOne>>),
     Container("list", <<Ref(3)>>),
     Container("dict", <<Ref(3), IntOne>>)}

\* IDBObjectWrapper(conn): the object holds the connection only.
Wrapper == [typ |-> "IDBObjectWrapper", items |-> <<>>]

\* _safe_repr is applied to an IDBObjectWrapper over the store, then to a dict
\* of the same key/value pairs in the same order, both at the same level, with
\* the same depth limit and sort flag.
ProjectionInit ==
    /\ CodecIdle /\ PrefsIdle /\ CtxIdle /\ ConnIdle /\ SortIdle
    /\ p_pc = "ready"
    /\ \E n \in 0..MaxRows : \E vals \in [1..n -> RowValues] :
         \E nested \in NestedContainers :
            /\ store = Container("dict", vals).items
            /\ heap = <<Wrapper, Container("dict", vals), nested>>
    /\ store0 = store
    /\ \E level \in 0..1 : root = <<<<Ref(1), level>>, <<Ref(2), level>>>>
    /\ maxlevels \in 0..MaxDepth
    /\ sort_dicts \in BOOLEAN
    /\ stack = <<>>
    /\ context = {}
    /\ ret = NoResult
    /\ results = <<>>
    /\ hits = 0
    /\ cuts = 0
    /\ steps = 0

SpecProjection == ProjectionInit /\ [][PrinterNext]_vars

\* C8: _safe_repr of an IDBObjectWrapper over a store returns the triple that
\* _safe_repr of a dict with the same key/value pairs in the same order
\* returns, for every store content, sort flag, depth limit and level, and the
\* store is never changed.
C8_PrintsLikeDict ==
    /\ store = store0
    /\ Rendered => results[1] = results[2]

\* Both are rendered, sorted, over a store of two rows or more whose keys are
\* not in sorted order and one of whose values holds itself.
C8_Witness ==
    /\ Rendered
    /\ Len(store) >= 2
    /\ sort_dicts
    /\ Sorted(store) # store
    /\ results[1].recursive
    /\ results[1].rep[1] = "{"
    /\ results[1] = results[2]

====
